---------------------------- MODULE Spec2Model ----------------------------
(***************************************************************************)
(* Model of the enrichment pipeline of eqho-tow-scrape:                    *)
(*   - WebsiteScraperService.check_impound_service (content classifier),   *)
(*   - WebsiteScraperService.scrape_website (page fetch + classify),       *)
(*   - CompanyService.create_or_update_company (upsert),                   *)
(*   - ScrapingOrchestrator.crawl_and_enrich_zone, _scrape_websites_batch, *)
(*     _scrape_profiles_batch and refresh_stale_companies.                 *)
(*                                                                         *)
(* Python strings are sequences of one-character strings, so that          *)
(* str.lower(), the `in` substring test and str.startswith are computed    *)
(* character by character as the interpreter computes them.                *)
(* Confidence values are hundredths (0.95 is 95).                          *)
(***************************************************************************)
EXTENDS Integers, Sequences, FiniteSets, Bags, TLC

VARIABLES
    \* ---- check_impound_service(html, text) ----
    html,            \* the html argument
    text,            \* the text argument
    impound_result,  \* the returned dict (NoResult before the call returns)
    cls_pc,          \* "call" before the call, "returned" after it
    \* ---- one call scrape_website(url) on a WebsiteScraperService ----
    sw_url,          \* the url argument
    sw_pc,           \* the await the call is suspended at, or "returned"
    sw_browser,      \* self.browser is set
    sw_page,         \* the content the page serves: [html, text]
    sw_fetcher,      \* page-fetcher operations invoked, in order
    sw_result,       \* the returned dict
    \* ---- the pipeline: repository, orchestrator, batch scraper ----
    companies,       \* the companies table: row i is the Company with id i
    now,             \* datetime.utcnow(), in days
    es_browser,      \* enrichment_service.website_scraper.browser is set
    op,              \* the entry point running: "idle", "crawl" or "refresh"
    phase,           \* where it is: "discover", "upsert", "websites", "profiles",
                     \* or how it ended: "returned" or the error it raised
    args,            \* its arguments
    discovery,       \* how its crawl_google_maps call ended ("none": no call)
    todo,            \* crawl: listings of companies_data not yet processed
    batch,           \* companies_to_scrape / stale_companies (ids, in order)
    idx,             \* the loop index of _scrape_profiles_batch
    stats,           \* the stats dict of the entry point
    semaphore,       \* free permits of the batch's asyncio.Semaphore
    results,         \* the results dict of the running batch
    task_pc,         \* per task of the batch: the await it is suspended at
    task_web,        \* per task: website_data['status'] ("none": not scraped)
    task_out,        \* per task: how it ended ("success", "failed", "raised")
    stage0,          \* per company: its stage when the running batch started
    gathered,        \* how asyncio.gather ended: "pending", "returned", "raised"
    ops,             \* entry-point calls made so far
    db_failures,     \* repository operations that raised so far
    status_result,   \* the dict the last get_scraping_status call returned
    last_upsert,     \* the last create_or_update_company call of the crawl loop
    snapshots,       \* the enrichment_snapshots table, a bag of rows
    ap_pc,           \* crawl_google_maps: the await it is suspended at, or how it ended
    ap_max_wait,     \* the max_wait argument of _wait_for_run_completion
    ap_elapsed,      \* the elapsed counter of _wait_for_run_completion
    ap_polls,        \* the run statuses the polls observed, in order
    ap_run,          \* the status of the actor run at the discovery service
    ap_dataset       \* whether the run's dataset items were requested

clsVars == <<html, text, impound_result, cls_pc>>

swVars == <<sw_url, sw_pc, sw_browser, sw_page, sw_fetcher, sw_result>>

opVars == <<op, phase, args, discovery, todo, batch, idx, stats, ops, last_upsert>>

batchVars == <<semaphore, results, task_pc, task_web, task_out, stage0, gathered>>

apVars == <<ap_pc, ap_max_wait, ap_elapsed, ap_polls, ap_run, ap_dataset>>

plVars == <<companies, now, es_browser, op, phase, args, discovery, todo, batch, idx, stats,
            semaphore, results, task_pc, task_web, task_out, stage0, gathered, ops,
            db_failures, status_result, last_upsert, snapshots>>

vars == <<html, text, impound_result, cls_pc,
          sw_url, sw_pc, sw_browser, sw_page, sw_fetcher, sw_result,
          companies, now, es_browser, op, phase, args, discovery, todo, batch, idx, stats,
          semaphore, results, task_pc, task_web, task_out, stage0, gathered, ops,
          db_failures, status_result, last_upsert, snapshots,
          ap_pc, ap_max_wait, ap_elapsed, ap_polls, ap_run, ap_dataset>>

\* Python's None, True and False where a value is Optional[bool] or Optional
None == "None"
PyTrue == "True"
PyFalse == "False"

-----------------------------------------------------------------------------
(* Python string primitives *)

\* str.lower() on one character (the characters the inputs are built from)
LowerChar(c) ==
    CASE c = "I" -> "i"
      [] c = "W" -> "w"
      [] c = "E" -> "e"
      [] c = "D" -> "d"
      [] c = "O" -> "o"
      [] c = "N" -> "n"
      [] c = "T" -> "t"
      [] c = "H" -> "h"
      [] c = "P" -> "p"
      [] OTHER -> c

\* str.lower()
Lower(s) == [i \in 1..Len(s) |-> LowerChar(s[i])]

\* `p in s` for strings: p occurs in s as a contiguous substring
Contains(s, p) ==
    \E i \in 0..(Len(s) - Len(p)) : SubSeq(s, i + 1, i + Len(p)) = p

\* s.startswith(p)
StartsWith(s, p) ==
    /\ Len(s) >= Len(p)
    /\ SubSeq(s, 1, Len(p)) = p

-----------------------------------------------------------------------------
(* check_impound_service *)

W_impound == <<"i","m","p","o","u","n","d">>
W_lot == <<" ","l","o","t">>
W_yard == <<" ","y","a","r","d">>
W_storage == <<" ","s","t","o","r","a","g","e">>
W_ment == <<"m","e","n","t">>
W_ed_vehicles == <<"e","d"," ","v","e","h","i","c","l","e","s">>
W_vehicle_ == <<"v","e","h","i","c","l","e"," ">>
W_car_ == <<"c","a","r"," ">>
W_towing_ == <<"t","o","w","i","n","g"," ">>
W_police_ == <<"p","o","l","i","c","e"," ">>
W_we_do_not_ == <<"w","e"," ","d","o"," ","n","o","t"," ">>
W_no_ == <<"n","o"," ">>
W_not_an_ == <<"n","o","t"," ","a","n"," ">>

\* impound_keywords, in list order
impound_keywords ==
    << W_impound,
       W_impound \o W_lot,
       W_impound \o W_yard,
       W_vehicle_ \o W_impound,
       W_car_ \o W_impound,
       W_towing_ \o W_impound,
       W_impound \o W_ment,
       W_impound \o W_ed_vehicles,
       W_impound \o W_storage,
       W_police_ \o W_impound >>

\* negative_keywords, in list order
negative_keywords ==
    << W_we_do_not_ \o W_impound,
       W_no_ \o W_impound,
       W_not_an_ \o W_impound >>

\* the first loop: some negative keyword is in text_lower or in html_lower
NegativeHit(h, t) ==
    \E k \in 1..Len(negative_keywords) :
        \/ Contains(Lower(t), negative_keywords[k])
        \/ Contains(Lower(h), negative_keywords[k])

\* the second loop: matches += 1 per keyword in text_lower, += 1 per keyword
\* in html_lower
RECURSIVE CountMatches(_, _, _)
CountMatches(h, t, k) ==
    IF k > Len(impound_keywords) THEN 0
    ELSE (IF Contains(Lower(t), impound_keywords[k]) THEN 1 ELSE 0)
       + (IF Contains(Lower(h), impound_keywords[k]) THEN 1 ELSE 0)
       + CountMatches(h, t, k + 1)

\* faulty variant of Matches: the HTML is not looked at
Matches_TextOnly(h, t) == CountMatches(<<>>, t, 1)

Matches(h, t) == CountMatches(h, t, 1)

\* faulty variant of ConfidenceOf: the last two thresholds are off by one
ConfidenceOf_OffByOne(matches) ==
    IF matches = 0 THEN [has_impound |-> PyFalse, confidence |-> 30]
    ELSE IF matches = 1 THEN [has_impound |-> PyTrue, confidence |-> 60]
    ELSE IF matches <= 3 THEN [has_impound |-> PyTrue, confidence |-> 80]
    ELSE [has_impound |-> PyTrue, confidence |-> 95]

\* the if/elif chain on matches
ConfidenceOf(matches) ==
    IF matches = 0 THEN [has_impound |-> PyFalse, confidence |-> 30]
    ELSE IF matches = 1 THEN [has_impound |-> PyTrue, confidence |-> 60]
    ELSE IF matches = 2 THEN [has_impound |-> PyTrue, confidence |-> 80]
    ELSE [has_impound |-> PyTrue, confidence |-> 95]

\* faulty variant of check_impound_service: the negative keywords are looked up only
\* when no positive keyword matched
check_impound_service_CountFirst(h, t) ==
    IF Matches(h, t) > 0 THEN ConfidenceOf(Matches(h, t))
    ELSE IF NegativeHit(h, t)
    THEN [has_impound |-> PyFalse, confidence |-> 90]
    ELSE ConfidenceOf(0)

check_impound_service(h, t) ==
    IF NegativeHit(h, t)
    THEN [has_impound |-> PyFalse, confidence |-> 90]
    ELSE ConfidenceOf(Matches(h, t))

-----------------------------------------------------------------------------
(* Inputs of the classifier: page content built from a few fragments that  *)
(* combine into the keywords, their negations and upper-case spellings.    *)

MaxFrags == 2
MaxHtmlFrags == 2

W_IMPOUND == <<"I","m","p","o","u","n","d">>
W_WE_DO_NOT_ == <<"W","E"," ","D","O"," ","N","O","T"," ">>
W_tow == <<"t","o","w">>

Fragments ==
    { W_impound, W_IMPOUND, W_lot, W_ment, W_no_, W_WE_DO_NOT_, W_not_an_, W_tow }

W_tag == <<"<","p",">">>

HtmlFragments == { W_impound, W_lot, W_no_, W_tag }

\* the strings made of at most n fragments of F
RECURSIVE Concats(_, _)
Concats(F, n) ==
    IF n = 0 THEN { <<>> }
    ELSE Concats(F, n - 1) \cup { s \o f : s \in Concats(F, n - 1), f \in F }

Texts == Concats(Fragments, MaxFrags)
Htmls == Concats(HtmlFragments, MaxHtmlFrags)

NoResult == [has_impound |-> None, confidence |-> 0]

\* no check_impound_service call is made
ClsIdle ==
    /\ html = <<>>
    /\ text = <<>>
    /\ impound_result = NoResult
    /\ cls_pc = "returned"

\* no crawl_google_maps call is made
ApIdle ==
    /\ ap_pc = "idle"
    /\ ap_max_wait = 0
    /\ ap_elapsed = 0
    /\ ap_polls = <<>>
    /\ ap_run = "none"
    /\ ap_dataset = FALSE

\* no scrape_website call is made
SwIdle ==
    /\ sw_url = <<>>
    /\ sw_pc = "idle"
    /\ sw_browser = FALSE
    /\ sw_page = [html |-> <<>>, text |-> <<>>]
    /\ sw_fetcher = <<>>
    /\ sw_result = [hours |-> None, has_impound |-> None,
                    impound_confidence |-> 0, status |-> "none"]

NoArgs == [zone_id |-> "", scrape_websites |-> FALSE, scrape_profiles |-> FALSE,
           days_stale |-> 0, limit |-> 0]

\* stats['stage_breakdown'] before the loop: a stage the dict has no key
\* for counts 0
NoBreakdown ==
    [ stage \in {"initial", "google_maps", "website_scraped", "facebook_scraped",
                 "fully_enriched", "failed"} |-> 0 ]

NoStats == [companies_found |-> 0, companies_new |-> 0, companies_updated |-> 0,
            websites_scraped |-> 0, websites_failed |-> 0, profiles_scraped |-> 0,
            companies_processed |-> 0, stage_breakdown |-> NoBreakdown]

\* no get_scraping_status call was made yet
NoStatus == [total_companies |-> 0, status_breakdown |-> NoBreakdown,
             with_websites |-> 0, websites_scraped |-> 0, websites_failed |-> 0,
             called |-> FALSE]

\* no create_or_update_company call was made yet
NoUpsert == [data |-> [name |-> "", google_business_url |-> "", website |-> <<>>], id |-> 0,
             existing |-> FALSE, before |-> <<>>]

\* the crawl loop is over
UpsertLoopEnds == last_upsert' = NoUpsert

\* no batch is running
BatchIdle ==
    /\ semaphore = 0
    /\ results = [success |-> 0, failed |-> 0]
    /\ task_pc = <<>>
    /\ task_web = <<>>
    /\ task_out = <<>>
    /\ stage0 = <<>>
    /\ gathered = "pending"

\* the batch variables of an entry point that has not started a batch
BatchReset ==
    /\ semaphore' = 0
    /\ results' = [success |-> 0, failed |-> 0]
    /\ task_pc' = <<>>
    /\ task_web' = <<>>
    /\ task_out' = <<>>
    /\ stage0' = <<>>
    /\ gathered' = "pending"

\* the pipeline after construction: an empty table, no entry point running
PlInit ==
    /\ companies = <<>>
    /\ now = 0
    /\ es_browser = FALSE
    /\ op = "idle"
    /\ phase = "returned"
    /\ args = NoArgs
    /\ discovery = "none"
    /\ todo = 0
    /\ batch = <<>>
    /\ idx = 0
    /\ stats = NoStats
    /\ ops = 0
    /\ db_failures = 0
    /\ status_result = NoStatus
    /\ last_upsert = NoUpsert
    /\ snapshots = EmptyBag
    /\ BatchIdle

ClsInit ==
    /\ html \in Htmls
    /\ text \in Texts
    /\ impound_result = NoResult
    /\ cls_pc = "call"
    /\ SwIdle
    /\ PlInit
    /\ ApIdle

\* one call check_impound_service(html, text)
Classify ==
    /\ cls_pc = "call"
    /\ impound_result' = check_impound_service(html, text)
    /\ cls_pc' = "returned"
    /\ UNCHANGED <<html, text>>
    /\ UNCHANGED swVars
    /\ UNCHANGED <<plVars, apVars>>

ClsNext == Classify

SpecClassifier == ClsInit /\ [][ClsNext]_vars

-----------------------------------------------------------------------------
(* scrape_website *)

\* An Optional[str] is a character sequence, or NoneStr for Python's None.
NoneStr == << None >>

\* truthiness of an Optional[str]: neither None nor ""
Truthy(s) == s # NoneStr /\ s # <<>>

P_http == <<"h","t","t","p",":","/","/">>
P_https == <<"h","t","t","p","s",":","/","/">>

\* faulty variant of ValidUrl: any non-empty url is fetched
ValidUrl_AnyNonEmpty(url) == Truthy(url)

\* the negation of `not url or not url.startswith(('http://', 'https://'))`
ValidUrl(url) ==
    /\ Truthy(url)
    /\ (StartsWith(url, P_http) \/ StartsWith(url, P_https))

NoWebsiteResult ==
    [hours |-> None, has_impound |-> None, impound_confidence |-> 0,
     status |-> "no_website"]

FailedResult ==
    [hours |-> None, has_impound |-> None, impound_confidence |-> 0,
     status |-> "failed"]

\* extract_hours_of_operation returns a dict or None; its value is read by
\* no operation of the pipeline, so both outcomes are allowed.
HoursResults == { None, "hours_dict" }

SuccessResult(hours, impound) ==
    [hours |-> hours, has_impound |-> impound.has_impound,
     impound_confidence |-> impound.confidence, status |-> "success"]

U_host == <<"a",".","c","o">>
U_ftp == <<"f","t","p",":","/","/">>
U_HTTP == <<"H","T","T","P",":","/","/">>
U_http_one_slash == <<"h","t","t","p",":","/">>

\* url arguments: None, "", http and https urls, and strings without the prefix
Urls ==
    { NoneStr, <<>>, P_http \o U_host, P_https \o U_host, U_ftp \o U_host,
      U_host, U_HTTP \o U_host, U_http_one_slash \o U_host, P_http }

\* pages a site may serve
PageSamples ==
    { [html |-> <<>>, text |-> <<>>],
      [html |-> W_tag \o W_impound \o W_lot, text |-> W_impound \o W_lot],
      [html |-> W_tag \o W_tow, text |-> W_WE_DO_NOT_ \o W_impound] }

SwInit ==
    /\ ClsIdle
    /\ PlInit
    /\ ApIdle
    /\ sw_url \in Urls
    /\ sw_pc = "call"
    /\ sw_browser \in BOOLEAN
    /\ sw_page \in PageSamples
    /\ sw_fetcher = <<>>
    /\ sw_result = [hours |-> None, has_impound |-> None,
                    impound_confidence |-> 0, status |-> "none"]

\* faulty variant of SwFail: no except branch, the exception leaves the call
SwFail_Raises ==
    /\ sw_pc' = "raised"
    /\ UNCHANGED sw_result

\* the except branch: any exception inside the try returns the failed dict
SwFail ==
    /\ sw_result' = FailedResult
    /\ sw_pc' = "returned"

\* entry: the url test, then initialize() up to its first await
SwCall ==
    /\ sw_pc = "call"
    /\ IF ~ValidUrl(sw_url)
       THEN /\ sw_result' = NoWebsiteResult
            /\ sw_pc' = "returned"
       ELSE /\ sw_pc' = IF sw_browser THEN "new_page" ELSE "launch"
            /\ UNCHANGED sw_result
    /\ UNCHANGED <<sw_url, sw_browser, sw_page, sw_fetcher>>
    /\ UNCHANGED clsVars
    /\ UNCHANGED <<plVars, apVars>>

\* initialize(): async_playwright().start() and chromium.launch()
SwLaunch ==
    /\ sw_pc = "launch"
    /\ sw_fetcher' = Append(sw_fetcher, "launch")
    /\ \/ /\ sw_browser' = TRUE
          /\ sw_pc' = "new_page"
          /\ UNCHANGED sw_result
       \/ /\ SwFail
          /\ UNCHANGED sw_browser
    /\ UNCHANGED <<sw_url, sw_page>>
    /\ UNCHANGED clsVars
    /\ UNCHANGED <<plVars, apVars>>

\* browser.new_page()
SwNewPage ==
    /\ sw_pc = "new_page"
    /\ sw_fetcher' = Append(sw_fetcher, "new_page")
    /\ \/ /\ sw_pc' = "goto"
          /\ UNCHANGED sw_result
       \/ SwFail
    /\ UNCHANGED <<sw_url, sw_browser, sw_page>>
    /\ UNCHANGED clsVars
    /\ UNCHANGED <<plVars, apVars>>

\* page.goto(url, timeout, wait_until='networkidle')
SwGoto ==
    /\ sw_pc = "goto"
    /\ sw_fetcher' = Append(sw_fetcher, "goto")
    /\ \/ /\ sw_pc' = "content"
          /\ UNCHANGED sw_result
       \/ SwFail
    /\ UNCHANGED <<sw_url, sw_browser, sw_page>>
    /\ UNCHANGED clsVars
    /\ UNCHANGED <<plVars, apVars>>

\* page.content(), page.inner_text('body'), the two extractions, page.close()
SwContent ==
    /\ sw_pc = "content"
    /\ sw_fetcher' = Append(sw_fetcher, "content")
    /\ \/ \E hours \in HoursResults :
             /\ sw_result' = SuccessResult(hours,
                    check_impound_service(sw_page.html, sw_page.text))
             /\ sw_pc' = "returned"
       \/ SwFail
    /\ UNCHANGED <<sw_url, sw_browser, sw_page>>
    /\ UNCHANGED clsVars
    /\ UNCHANGED <<plVars, apVars>>

SwNext == SwCall \/ SwLaunch \/ SwNewPage \/ SwGoto \/ SwContent

SpecScraper == SwInit /\ [][SwNext]_vars

-----------------------------------------------------------------------------
(* The repository: Company rows and create_or_update_company *)

S_INITIAL == "initial"
S_GOOGLE_MAPS == "google_maps"
S_WEBSITE_SCRAPED == "website_scraped"
S_FACEBOOK_SCRAPED == "facebook_scraped"
S_FULLY_ENRICHED == "fully_enriched"
S_FAILED == "failed"

\* the values of the ScrapingStage enum
ScrapingStage ==
    { S_INITIAL, S_GOOGLE_MAPS, S_WEBSITE_SCRAPED, S_FACEBOOK_SCRAPED,
      S_FULLY_ENRICHED, S_FAILED }

\* a nullable DateTime column: <<>> is NULL, <<t>> the time t
NullTime == <<>>

Keys == { "k1", "k2" }
U_site == P_https \o U_host
U_ftp_site == U_ftp \o U_host
ListingWebsites == { NoneStr, <<>>, U_site, U_ftp_site }

\* the items of the run's dataset, reduced to title, url and website: a
\* field the item lacks reads as "" (item.get(key, "")), a null one as None
RawTitles == { None, "", "Ace Towing" }
RawItems == [ title : RawTitles, url : {None, ""} \cup Keys, website : ListingWebsites ]

\* what _map_apify_result returns for an item it skips
Dropped == [ dropped |-> TRUE ]

\* faulty variant of _map_apify_result: the required fields are not validated
_map_apify_result_Unvalidated(item) ==
    [ name |-> item.title, google_business_url |-> item.url, website |-> item.website ]

\* _map_apify_result: None unless title and url are both truthy (any
\* exception is caught and gives None too), else the company dict
_map_apify_result(item) ==
    IF item.title \in {None, ""} \/ item.url \in {None, ""}
    THEN Dropped
    ELSE [ name |-> item.title, google_business_url |-> item.url,
           website |-> item.website ]

\* the dicts crawl_google_maps returns: the mapped items that are not None
Listings ==
    { _map_apify_result(item) : item \in RawItems } \ { Dropped }

\* select(Company).where(Company.google_business_url == google_url)
RowsWithKey(cs, key) == { i \in 1..Len(cs) : cs[i].google_business_url = key }

\* scalar_one_or_none(): the id of the row, 0 for None
FindByKey(cs, key) ==
    IF RowsWithKey(cs, key) = {} THEN 0
    ELSE CHOOSE i \in RowsWithKey(cs, key) : \A j \in RowsWithKey(cs, key) : i <= j

\* Company(**company_data): the columns a listing does not set are NULL
NewRow(data) ==
    [ google_business_url |-> data.google_business_url,
      website |-> data.website,
      scraping_stage |-> None,
      website_scrape_status |-> None,
      website_scraped_at |-> NullTime ]

\* faulty variant of MergeRow: every value of the dict is written, None included
MergeRow_WriteNone(row, data) ==
    [ row EXCEPT
        !.google_business_url = data.google_business_url,
        !.website = data.website ]

\* the setattr loop of the update branch: `if value is not None`
MergeRow(row, data) ==
    [ row EXCEPT
        !.google_business_url =
            IF data.google_business_url # None THEN data.google_business_url ELSE @,
        !.website = IF data.website # NoneStr THEN data.website ELSE @ ]

\* create_or_update_company: the table after the call
create_or_update_company(cs, data) ==
    IF data.google_business_url # "" /\ FindByKey(cs, data.google_business_url) # 0
    THEN [ cs EXCEPT ![FindByKey(cs, data.google_business_url)] = MergeRow(@, data) ]
    ELSE Append(cs, NewRow(data))

\* the id of the Company the call returns
ReturnedId(cs, data) ==
    IF data.google_business_url # "" /\ FindByKey(cs, data.google_business_url) # 0
    THEN FindByKey(cs, data.google_business_url)
    ELSE Len(cs) + 1

-----------------------------------------------------------------------------
(* _scrape_websites_batch *)

MaxConcurrent == 2
MaxDbFailures == 2

\* what the crawl, the refresh and the batch leave alone
notPl == <<clsVars, swVars, apVars, status_result>>

\* faulty variant of GatherOutcome: gather without return_exceptions=True
GatherOutcome_Propagate(outs) ==
    IF \E i \in 1..Len(outs) : outs[i] = "raised" THEN "raised" ELSE "returned"

\* asyncio.gather(*tasks, return_exceptions=True): exceptions are collected
GatherOutcome(outs) == "returned"

\* semaphore = asyncio.Semaphore(self.max_concurrent); results; the tasks
BatchStart(cs, b) ==
    /\ semaphore' = MaxConcurrent
    /\ results' = [success |-> 0, failed |-> 0]
    /\ task_pc' = [i \in 1..Len(b) |-> "start"]
    /\ task_web' = [i \in 1..Len(b) |-> "none"]
    /\ task_out' = [i \in 1..Len(b) |-> "none"]
    /\ stage0' = [c \in 1..Len(cs) |-> cs[c].scraping_stage]
    /\ gathered' = "pending"

Tasks == 1..Len(task_pc)

\* faulty variant of CanAcquire: the permit count is not looked at
CanAcquire_Unbounded(i) == \A j \in 1..(i - 1) : task_pc[j] # "start"

\* `async with semaphore`: a permit is free and no earlier task still waits
\* (tasks start in input order and waiters are woken first-in first-out)
CanAcquire(i) ==
    /\ semaphore > 0
    /\ \A j \in 1..(i - 1) : task_pc[j] # "start"

\* what a task step leaves alone besides the variables it names
TaskFrame ==
    /\ UNCHANGED <<now, stage0, gathered>>
    /\ UNCHANGED opVars
    /\ UNCHANGED notPl

TaskAcquire(i) ==
    /\ phase = "websites"
    /\ task_pc[i] = "start"
    /\ CanAcquire(i)
    /\ semaphore' = semaphore - 1
    /\ task_pc' = [task_pc EXCEPT ![i] = "get"]
    /\ UNCHANGED <<companies, es_browser, snapshots, db_failures, results, task_web, task_out>>
    /\ TaskFrame

\* the setattr loop of enrich_company for the website part of enrichment_data
ApplyEnrichment(cs, c, status) ==
    IF status = "success"
    THEN [cs EXCEPT ![c].website_scraped_at = <<now>>,
                    ![c].website_scrape_status = "success"]
    ELSE [cs EXCEPT ![c].website_scrape_status = status]

\* the three assignments after enrich_company returned
MarkSuccess(cs, c) ==
    [cs EXCEPT ![c].scraping_stage = S_WEBSITE_SCRAPED,
               ![c].website_scraped_at = <<now>>,
               ![c].website_scrape_status = "success"]

\* the two assignments of the except branch
MarkFailed(cs, c) ==
    [cs EXCEPT ![c].website_scrape_status = "failed",
               ![c].scraping_stage = S_FAILED]

\* a repository operation (query, commit, refresh) raises
DbRaises ==
    /\ db_failures < MaxDbFailures
    /\ db_failures' = db_failures + 1

\* an exception inside the try: the except branch runs up to its commit
Except(i) ==
    /\ DbRaises
    /\ companies' = MarkFailed(companies, batch[i])
    /\ task_pc' = [task_pc EXCEPT ![i] = "failmark"]

\* enrich_company: get_company returned; scrape_website runs up to its
\* first await, or returns no_website at once, or is not called at all
TaskGet(i) ==
    /\ phase = "websites"
    /\ task_pc[i] = "get"
    /\ \/ /\ LET w == companies[batch[i]].website IN
             IF ~Truthy(w)
             THEN /\ task_pc' = [task_pc EXCEPT ![i] = "commit"]
                  /\ UNCHANGED <<companies, task_web>>
             ELSE IF ~ValidUrl(w)
             THEN /\ task_web' = [task_web EXCEPT ![i] = "no_website"]
                  /\ companies' = ApplyEnrichment(companies, batch[i], "no_website")
                  /\ task_pc' = [task_pc EXCEPT ![i] = "commit"]
             ELSE /\ task_pc' = [task_pc EXCEPT ![i] =
                                    IF es_browser THEN "page" ELSE "launch"]
                  /\ UNCHANGED <<companies, task_web>>
          /\ UNCHANGED db_failures
       \/ /\ Except(i)
          /\ UNCHANGED task_web
    /\ UNCHANGED <<es_browser, snapshots, semaphore, results, task_out>>
    /\ TaskFrame

\* scrape_website: initialize() launches the browser, or raises and
\* scrape_website returns the failed dict
TaskLaunch(i) ==
    /\ phase = "websites"
    /\ task_pc[i] = "launch"
    /\ \/ /\ es_browser' = TRUE
          /\ task_pc' = [task_pc EXCEPT ![i] = "page"]
          /\ UNCHANGED <<companies, task_web>>
       \/ /\ task_web' = [task_web EXCEPT ![i] = "failed"]
          /\ companies' = ApplyEnrichment(companies, batch[i], "failed")
          /\ task_pc' = [task_pc EXCEPT ![i] = "commit"]
          /\ UNCHANGED es_browser
    /\ UNCHANGED <<db_failures, semaphore, results, task_out, snapshots>>
    /\ TaskFrame

\* scrape_website: new_page, goto, content, inner_text, close: the page is
\* fetched and classified, or one of them raises (error or timeout)
TaskPage(i) ==
    /\ phase = "websites"
    /\ task_pc[i] = "page"
    /\ \E st \in {"success", "failed"} :
          /\ task_web' = [task_web EXCEPT ![i] = st]
          /\ companies' = ApplyEnrichment(companies, batch[i], st)
    /\ task_pc' = [task_pc EXCEPT ![i] = "commit"]
    /\ UNCHANGED <<es_browser, snapshots, db_failures, semaphore, results, task_out>>
    /\ TaskFrame

\* enrich_company: db.commit() and db.refresh(company)
TaskCommit(i) ==
    /\ phase = "websites"
    /\ task_pc[i] = "commit"
    /\ \/ /\ task_pc' = [task_pc EXCEPT ![i] = "snapshot"]
          /\ UNCHANGED <<companies, db_failures>>
       \/ Except(i)
    /\ UNCHANGED <<es_browser, snapshots, semaphore, results, task_web, task_out>>
    /\ TaskFrame

\* faulty variant of _store_snapshot: the table is emptied before the insert
_store_snapshot_Replace(table, company_id, snapshot_data, source) ==
    SetToBag({ [company_id |-> company_id,
                snapshot_data |-> snapshot_data,
                enrichment_source |-> source] })

\* db.add(EnrichmentSnapshot(company_id, snapshot_data, enrichment_source))
\* and the commit; of snapshot_data the model keeps website_scrape_status
\* ("none": the key is absent)
_store_snapshot(table, company_id, snapshot_data, source) ==
    table (+) SetToBag({ [company_id |-> company_id,
                          snapshot_data |-> snapshot_data,
                          enrichment_source |-> source] })

\* enrich_company: _store_snapshot, then the return into scrape_with_limit,
\* which marks the company and awaits its commit
TaskSnapshot(i) ==
    /\ phase = "websites"
    /\ task_pc[i] = "snapshot"
    /\ \/ /\ snapshots' = _store_snapshot(snapshots, batch[i], task_web[i], "website")
          /\ companies' = MarkSuccess(companies, batch[i])
          /\ task_pc' = [task_pc EXCEPT ![i] = "mark"]
          /\ UNCHANGED db_failures
       \/ /\ Except(i)
          /\ UNCHANGED snapshots
    /\ UNCHANGED <<es_browser, semaphore, results, task_web, task_out>>
    /\ TaskFrame

\* the commit of the try branch, results['success'] += 1, the permit is freed
TaskMark(i) ==
    /\ phase = "websites"
    /\ task_pc[i] = "mark"
    /\ \/ /\ results' = [results EXCEPT !.success = @ + 1]
          /\ semaphore' = semaphore + 1
          /\ task_pc' = [task_pc EXCEPT ![i] = "done"]
          /\ task_out' = [task_out EXCEPT ![i] = "success"]
          /\ UNCHANGED <<companies, db_failures>>
       \/ /\ Except(i)
          /\ UNCHANGED <<results, semaphore, task_out>>
    /\ UNCHANGED <<es_browser, snapshots, task_web>>
    /\ TaskFrame

\* the commit of the except branch, results['failed'] += 1; when that commit
\* raises, the exception leaves the task; `async with` frees the permit
TaskFailMark(i) ==
    /\ phase = "websites"
    /\ task_pc[i] = "failmark"
    /\ \/ /\ results' = [results EXCEPT !.failed = @ + 1]
          /\ task_out' = [task_out EXCEPT ![i] = "failed"]
          /\ UNCHANGED db_failures
       \/ /\ DbRaises
          /\ task_out' = [task_out EXCEPT ![i] = "raised"]
          /\ UNCHANGED results
    /\ semaphore' = semaphore + 1
    /\ task_pc' = [task_pc EXCEPT ![i] = "done"]
    /\ UNCHANGED <<companies, es_browser, snapshots, task_web>>
    /\ TaskFrame

-----------------------------------------------------------------------------
(* crawl_and_enrich_zone, _scrape_profiles_batch, refresh_stale_companies *)

MaxListings == 2
MaxOps == 2
MaxClock == 1
MaxLimit == 2

\* the entry point returns to its caller
Return ==
    /\ op' = "idle"
    /\ phase' = "returned"

\* the rest of crawl_and_enrich_zone after the website stage
AfterWebsites ==
    IF args.scrape_profiles
    THEN /\ phase' = "profiles"
         /\ idx' = 1
         /\ UNCHANGED op
    ELSE /\ Return
         /\ UNCHANGED idx

\* the zones table (zones are created elsewhere) and the ids a caller passes
Zones == { "z1" }
ZoneIds == { "z1", "z9" }

\* the errors an entry point raises to its caller
ZoneNotFound == "ValueError: Zone not found"
DiscoveryError == "discovery error"

\* faulty variant of ZoneFound: the result of get_zone is not looked at
ZoneFound_Unchecked(zone_id) == TRUE

\* ZoneService.get_zone(db, zone_id) is not None
ZoneFound(zone_id) == zone_id \in Zones

\* a zone crawl is requested: the zone is looked up; an unknown zone raises,
\* a known one goes on to the discovery call
CrawlStart ==
    /\ op = "idle"
    /\ ops < MaxOps
    /\ ops' = ops + 1
    /\ \E z \in ZoneIds, sw \in BOOLEAN, sp \in BOOLEAN :
          /\ args' = [NoArgs EXCEPT !.zone_id = z, !.scrape_websites = sw,
                                    !.scrape_profiles = sp]
          /\ IF ZoneFound(z)
             THEN /\ op' = "crawl"
                  /\ phase' = "discover"
             ELSE /\ op' = "idle"
                  /\ phase' = ZoneNotFound
    /\ discovery' = "none"
    /\ stats' = NoStats
    /\ todo' = 0
    /\ batch' = <<>>
    /\ idx' = 0
    /\ BatchReset
    /\ UNCHANGED last_upsert
    /\ UNCHANGED <<companies, now, es_browser, snapshots, db_failures>>
    /\ UNCHANGED notPl

\* how crawl_google_maps can end: the listings are returned, the request that
\* starts the run fails, the run's status is FAILED, or polling times out
DiscoveryOutcomes == { "SUCCEEDED", "start_error", "FAILED", "timeout" }

\* faulty variant of DiscoveryRaises: the error is swallowed, the crawl goes
\* on with no listings
DiscoveryRaises_Swallowed(outcome) == FALSE

\* crawl_google_maps raises unless the run succeeded
DiscoveryRaises(outcome) == outcome # "SUCCEEDED"

\* crawl_google_maps returns n listings, or raises: nothing catches it
CrawlDiscover ==
    /\ op = "crawl"
    /\ phase = "discover"
    /\ \E outcome \in DiscoveryOutcomes :
          /\ discovery' = outcome
          /\ IF DiscoveryRaises(outcome)
             THEN /\ op' = "idle"
                  /\ phase' = DiscoveryError
                  /\ UNCHANGED <<stats, todo>>
             ELSE /\ \E n \in 0..(IF outcome = "SUCCEEDED" THEN MaxListings ELSE 0) :
                        /\ stats' = [NoStats EXCEPT !.companies_found = n]
                        /\ todo' = n
                  /\ phase' = "upsert"
                  /\ UNCHANGED op
    /\ UNCHANGED <<args, batch, idx, ops, last_upsert>>
    /\ UNCHANGED batchVars
    /\ UNCHANGED <<companies, now, es_browser, snapshots, db_failures>>
    /\ UNCHANGED notPl

\* faulty variant of StageAfterUpsert: an existing company is always reset
StageAfterUpsert_AlwaysReset(existing, stage) ==
    IF existing THEN S_GOOGLE_MAPS ELSE S_INITIAL

\* the stage after the `if existing:` block of the loop body
StageAfterUpsert(existing, stage) ==
    IF existing
    THEN IF stage = None \/ stage = S_INITIAL THEN S_GOOGLE_MAPS
         ELSE IF stage \in ScrapingStage THEN stage
         ELSE S_GOOGLE_MAPS
    ELSE S_INITIAL

\* one iteration of the loop over companies_data
CrawlUpsert ==
    /\ op = "crawl"
    /\ phase = "upsert"
    /\ todo > 0
    /\ \E data \in Listings :
          LET existing == FindByKey(companies, data.google_business_url) # 0
              id == ReturnedId(companies, data)
              cs == create_or_update_company(companies, data)
          IN  /\ companies' =
                    [cs EXCEPT ![id].scraping_stage = StageAfterUpsert(existing, @)]
              /\ stats' =
                    IF existing
                    THEN [stats EXCEPT
                            !.companies_updated = @ + 1,
                            !.stage_breakdown[StageAfterUpsert(existing, cs[id].scraping_stage)] = @ + 1]
                    ELSE [stats EXCEPT
                            !.companies_new = @ + 1,
                            !.stage_breakdown[S_INITIAL] = @ + 1]
              /\ batch' = IF args.scrape_websites /\ Truthy(cs[id].website)
                          THEN Append(batch, id)
                          ELSE batch
              /\ last_upsert' = [data |-> data, id |-> id, existing |-> existing,
                                 before |-> IF existing THEN companies[id].website
                                            ELSE NoneStr]
    /\ todo' = todo - 1
    /\ UNCHANGED <<now, es_browser, snapshots, db_failures, op, phase, args, discovery, idx, ops>>
    /\ UNCHANGED batchVars
    /\ UNCHANGED notPl

\* `if scrape_websites and companies_to_scrape:` holds: the batch starts
CrawlWebsites ==
    /\ op = "crawl"
    /\ phase = "upsert"
    /\ todo = 0
    /\ args.scrape_websites /\ batch # <<>>
    /\ phase' = "websites"
    /\ BatchStart(companies, batch)
    /\ UpsertLoopEnds
    /\ UNCHANGED <<op, args, discovery, todo, batch, idx, stats, ops>>
    /\ UNCHANGED <<companies, now, es_browser, snapshots, db_failures>>
    /\ UNCHANGED notPl

\* the website stage is skipped
CrawlSkipWebsites ==
    /\ op = "crawl"
    /\ phase = "upsert"
    /\ todo = 0
    /\ ~(args.scrape_websites /\ batch # <<>>)
    /\ AfterWebsites
    /\ UpsertLoopEnds
    /\ UNCHANGED <<args, discovery, todo, batch, stats, ops>>
    /\ UNCHANGED batchVars
    /\ UNCHANGED <<companies, now, es_browser, snapshots, db_failures>>
    /\ UNCHANGED notPl

\* faulty variant of GatherDone: the tasks are started and not awaited
GatherDone_NoWait == TRUE

\* `await asyncio.gather(*tasks, ...)` resumes when every task has finished
GatherDone == \A i \in Tasks : task_pc[i] = "done"

\* gather returned; _scrape_websites_batch returns results to its caller,
\* which goes on up to its next await
BatchJoin ==
    /\ phase = "websites"
    /\ GatherDone
    /\ gathered' = GatherOutcome(task_out)
    /\ IF gathered' = "raised"
       THEN /\ op' = "idle"
            /\ phase' = "raised"
            /\ UNCHANGED <<stats, idx>>
       ELSE IF op = "crawl"
       THEN /\ stats' = [stats EXCEPT !.websites_scraped = results.success,
                                      !.websites_failed = results.failed,
                                      !.stage_breakdown[S_WEBSITE_SCRAPED] = results.success]
            /\ AfterWebsites
       ELSE IF op = "refresh"
       THEN /\ stats' = [stats EXCEPT !.companies_processed = Len(batch),
                                      !.websites_scraped = results.success,
                                      !.websites_failed = results.failed]
            /\ Return
            /\ UNCHANGED idx
       ELSE /\ Return
            /\ UNCHANGED <<stats, idx>>
    /\ UNCHANGED <<args, discovery, todo, batch, ops, last_upsert>>
    /\ UNCHANGED <<semaphore, results, task_pc, task_web, task_out, stage0>>
    /\ UNCHANGED <<companies, now, es_browser, snapshots, db_failures>>
    /\ UNCHANGED notPl

\* one iteration of _scrape_profiles_batch: facebook_page is never set and
\* enrich_from_google returns {}, so no success is counted; the stage is
\* updated when the website scrape status is 'success'
ProfileStep ==
    /\ op = "crawl"
    /\ phase = "profiles"
    /\ idx <= Len(batch)
    /\ companies' =
          IF companies[batch[idx]].website_scrape_status = "success"
          THEN [companies EXCEPT ![batch[idx]].scraping_stage = S_FULLY_ENRICHED]
          ELSE companies
    /\ idx' = idx + 1
    /\ UNCHANGED <<now, es_browser, snapshots, db_failures>>
    /\ UNCHANGED <<op, phase, args, discovery, todo, batch, stats, ops, last_upsert>>
    /\ UNCHANGED batchVars
    /\ UNCHANGED notPl

\* _scrape_profiles_batch returned; crawl_and_enrich_zone returns stats
ProfilesEnd ==
    /\ op = "crawl"
    /\ phase = "profiles"
    /\ idx > Len(batch)
    /\ stats' = [stats EXCEPT !.profiles_scraped = 0,
                              !.stage_breakdown[S_FULLY_ENRICHED] = 0]
    /\ Return
    /\ UNCHANGED <<args, discovery, todo, batch, idx, ops, last_upsert>>
    /\ UNCHANGED batchVars
    /\ UNCHANGED <<companies, now, es_browser, snapshots, db_failures>>
    /\ UNCHANGED notPl

\* the WHERE clause of refresh_stale_companies, with SQL's NULL semantics:
\* a comparison with NULL is not true
IsStale(row, cutoff) ==
    /\ \/ row.website_scraped_at = NullTime
       \/ row.website_scraped_at # NullTime /\ row.website_scraped_at[1] < cutoff
    /\ row.website # NoneStr
    /\ row.website_scrape_status # None
    /\ row.website_scrape_status # "no_website"

\* the sequences of n distinct elements of S
RECURSIVE Arrangements(_, _)
Arrangements(S, n) ==
    IF n = 0 THEN { <<>> }
    ELSE UNION { { <<x>> \o r : r \in Arrangements(S \ {x}, n - 1) } : x \in S }

Min(a, b) == IF a <= b THEN a ELSE b

\* refresh_stale_companies: the query, then the batch over its rows
RefreshBody ==
    /\ op = "idle"
    /\ \E days \in 0..MaxClock, limit \in 1..MaxLimit :
          LET stale == { c \in 1..Len(companies) : IsStale(companies[c], now - days) }
          IN  /\ args' = [NoArgs EXCEPT !.days_stale = days, !.limit = limit]
              /\ \E sel \in Arrangements(stale, Min(limit, Cardinality(stale))) :
                    /\ batch' = sel
                    /\ IF sel = <<>>
                       THEN /\ op' = "idle"
                            /\ phase' = "returned"
                            /\ BatchReset
                       ELSE /\ op' = "refresh"
                            /\ phase' = "websites"
                            /\ BatchStart(companies, sel)
    /\ discovery' = "none"
    /\ stats' = NoStats
    /\ todo' = 0
    /\ idx' = 0
    /\ UNCHANGED <<companies, now, es_browser, snapshots, db_failures, last_upsert>>
    /\ UNCHANGED notPl

\* one of the calls of refresh_stale_companies the model counts
RefreshStart ==
    /\ ops < MaxOps
    /\ ops' = ops + 1
    /\ RefreshBody

\* the SELECT of get_scraping_status and the sums over its rows
get_scraping_status(cs) ==
    [ total_companies |-> Len(cs),
      status_breakdown |->
          [ stage \in ScrapingStage |->
              Cardinality({ c \in 1..Len(cs) :
                  \/ cs[c].scraping_stage = stage
                  \/ cs[c].scraping_stage = None /\ stage = S_INITIAL }) ],
      with_websites |-> Cardinality({ c \in 1..Len(cs) : Truthy(cs[c].website) }),
      websites_scraped |->
          Cardinality({ c \in 1..Len(cs) : cs[c].website_scrape_status = "success" }),
      websites_failed |->
          Cardinality({ c \in 1..Len(cs) : cs[c].website_scrape_status = "failed" }),
      called |-> TRUE ]

\* one call of get_scraping_status, between two calls of the other entry points
GetStatus ==
    /\ op = "idle"
    /\ ops < MaxOps
    /\ ops' = ops + 1
    /\ status_result' = get_scraping_status(companies)
    /\ args' = NoArgs
    /\ phase' = "returned"
    /\ UNCHANGED <<op, discovery, todo, batch, idx, stats, last_upsert>>
    /\ UNCHANGED batchVars
    /\ UNCHANGED <<companies, now, es_browser, snapshots, db_failures>>
    /\ UNCHANGED <<clsVars, swVars, apVars>>

\* time passes between two calls of the entry points
Tick ==
    /\ op = "idle"
    /\ now < MaxClock
    /\ now' = now + 1
    /\ UNCHANGED <<companies, es_browser, snapshots, db_failures>>
    /\ UNCHANGED opVars
    /\ UNCHANGED batchVars
    /\ UNCHANGED notPl

Init ==
    /\ ClsIdle
    /\ SwIdle
    /\ PlInit
    /\ ApIdle

Next ==
    \/ CrawlStart
    \/ CrawlDiscover
    \/ CrawlUpsert
    \/ CrawlWebsites
    \/ CrawlSkipWebsites
    \/ \E i \in Tasks : TaskAcquire(i)
    \/ \E i \in Tasks : TaskGet(i)
    \/ \E i \in Tasks : TaskLaunch(i)
    \/ \E i \in Tasks : TaskPage(i)
    \/ \E i \in Tasks : TaskCommit(i)
    \/ \E i \in Tasks : TaskSnapshot(i)
    \/ \E i \in Tasks : TaskMark(i)
    \/ \E i \in Tasks : TaskFailMark(i)
    \/ BatchJoin
    \/ ProfileStep
    \/ ProfilesEnd
    \/ RefreshStart
    \/ GetStatus
    \/ Tick

Spec == Init /\ [][Next]_vars

-----------------------------------------------------------------------------
(* _scrape_websites_batch called on its own, on any list of companies *)

MaxBatch == 3

\* a company no scrape has touched, and one an earlier crawl fully enriched
FreshRow(key, website) ==
    [ google_business_url |-> key, website |-> website,
      scraping_stage |-> S_INITIAL, website_scrape_status |-> None,
      website_scraped_at |-> NullTime ]

EnrichedRow(key, website) ==
    [ google_business_url |-> key, website |-> website,
      scraping_stage |-> S_FULLY_ENRICHED, website_scrape_status |-> "success",
      website_scraped_at |-> <<0>> ]

\* the rows that can stand in a batch: the crawl queues rows with a
\* non-empty website, the stale refresh rows with a status and any website
BatchRows(key) ==
    { FreshRow(key, U_site), FreshRow(key, U_ftp_site),
      EnrichedRow(key, U_site), EnrichedRow(key, U_ftp_site), EnrichedRow(key, <<>>) }

BatchKey(c) == <<"k", c>>

BatchInit ==
    /\ ClsIdle
    /\ SwIdle
    /\ ApIdle
    /\ \E n \in 1..MaxBatch :
          /\ companies \in { cs \in [1..n -> UNION { BatchRows(BatchKey(c)) : c \in 1..n }] :
                                \A c \in 1..n : cs[c].google_business_url = BatchKey(c) }
          /\ batch = [i \in 1..n |-> i]
          /\ task_pc = [i \in 1..n |-> "start"]
          /\ task_web = [i \in 1..n |-> "none"]
          /\ task_out = [i \in 1..n |-> "none"]
    /\ stage0 = [c \in 1..Len(companies) |-> companies[c].scraping_stage]
    /\ semaphore = MaxConcurrent
    /\ results = [success |-> 0, failed |-> 0]
    /\ gathered = "pending"
    /\ now = 1
    /\ es_browser = FALSE
    /\ snapshots = EmptyBag
    /\ op = "batch"
    /\ phase = "websites"
    /\ args = NoArgs
    /\ discovery = "none"
    /\ todo = 0
    /\ idx = 0
    /\ stats = NoStats
    /\ ops = 0
    /\ db_failures = 0
    /\ status_result = NoStatus
    /\ last_upsert = NoUpsert

BatchNext ==
    \/ \E i \in Tasks : TaskAcquire(i)
    \/ \E i \in Tasks : TaskGet(i)
    \/ \E i \in Tasks : TaskLaunch(i)
    \/ \E i \in Tasks : TaskPage(i)
    \/ \E i \in Tasks : TaskCommit(i)
    \/ \E i \in Tasks : TaskSnapshot(i)
    \/ \E i \in Tasks : TaskMark(i)
    \/ \E i \in Tasks : TaskFailMark(i)
    \/ BatchJoin

SpecBatch == BatchInit /\ [][BatchNext]_vars

-----------------------------------------------------------------------------
(* The entry points called over a table that already holds companies *)

MaxStored == 2

\* the external key of the stored row c
StoredKey(c) == << "k1", "k2", "k3", "k4" >>[c]

\* a stage value that is not a member of the ScrapingStage enum
S_BOGUS == "bogus"

\* a company whose enrichment raised, and one whose stage column holds a
\* value that is not of the enum (the column is a free string)
FailedRow(key, website) ==
    [ google_business_url |-> key, website |-> website,
      scraping_stage |-> S_FAILED, website_scrape_status |-> "failed",
      website_scraped_at |-> NullTime ]

CorruptRow(key, website) ==
    [ google_business_url |-> key, website |-> website,
      scraping_stage |-> S_BOGUS, website_scrape_status |-> "success",
      website_scraped_at |-> <<0>> ]

StoredRows(key) ==
    { FreshRow(key, U_site), EnrichedRow(key, U_site), FailedRow(key, U_site),
      CorruptRow(key, U_site), NewRow([google_business_url |-> key, website |-> NoneStr]) }

\* a table of 1..MaxStored companies; one more entry-point call is made
StoredInit ==
    /\ ClsIdle
    /\ SwIdle
    /\ ApIdle
    /\ \E n \in 1..MaxStored :
          companies \in { cs \in [1..n -> UNION { StoredRows(StoredKey(c)) : c \in 1..n }] :
                            \A c \in 1..n : cs[c].google_business_url = StoredKey(c) }
    /\ now = 0
    /\ es_browser = FALSE
    /\ snapshots = EmptyBag
    /\ op = "idle"
    /\ phase = "returned"
    /\ args = NoArgs
    /\ discovery = "none"
    /\ todo = 0
    /\ batch = <<>>
    /\ idx = 0
    /\ stats = NoStats
    /\ ops = MaxOps - 1
    /\ db_failures = 0
    /\ status_result = NoStatus
    /\ last_upsert = NoUpsert
    /\ BatchIdle

SpecStored == StoredInit /\ [][Next]_vars

-----------------------------------------------------------------------------
(* refresh_stale_companies called again and again *)

\* a further call of refresh_stale_companies
RefreshRepeat ==
    /\ UNCHANGED ops
    /\ RefreshBody

RefreshNext ==
    \/ RefreshRepeat
    \/ \E i \in Tasks : TaskAcquire(i)
    \/ \E i \in Tasks : TaskGet(i)
    \/ \E i \in Tasks : TaskLaunch(i)
    \/ \E i \in Tasks : TaskPage(i)
    \/ \E i \in Tasks : TaskCommit(i)
    \/ \E i \in Tasks : TaskSnapshot(i)
    \/ \E i \in Tasks : TaskMark(i)
    \/ \E i \in Tasks : TaskFailMark(i)
    \/ BatchJoin
    \/ Tick

\* the caller keeps calling, the event loop runs every task that can run,
\* and the clock goes on
RefreshFairness ==
    /\ WF_vars(RefreshRepeat)
    /\ WF_vars(BatchJoin)
    /\ WF_vars(Tick)
    /\ \A i \in 1..MaxStored :
          /\ WF_vars(i \in Tasks /\ TaskAcquire(i))
          /\ WF_vars(i \in Tasks /\ TaskGet(i))
          /\ WF_vars(i \in Tasks /\ TaskLaunch(i))
          /\ WF_vars(i \in Tasks /\ TaskPage(i))
          /\ WF_vars(i \in Tasks /\ TaskCommit(i))
          /\ WF_vars(i \in Tasks /\ TaskSnapshot(i))
          /\ WF_vars(i \in Tasks /\ TaskMark(i))
          /\ WF_vars(i \in Tasks /\ TaskFailMark(i))

SpecRefresh == StoredInit /\ [][RefreshNext]_vars /\ RefreshFairness

-----------------------------------------------------------------------------
(* crawl_google_maps: the run is started, polled until it ends, and its    *)
(* dataset is read                                                         *)

MaxPolls == 4

\* asyncio.sleep(5); elapsed += 5
PollInterval == 5

\* the statuses a run can end in, and the one it has until then
RunEndStatuses == { "SUCCEEDED", "FAILED", "ABORTED", "TIMED-OUT" }

\* the errors crawl_google_maps raises to its caller
HTTPStatusError == "HTTPStatusError"
RunFailedError == "Exception: Apify run failed"
RunTimeoutError == "TimeoutError"
ApErrors == { HTTPStatusError, RunFailedError, RunTimeoutError }

\* faulty variant of AfterPoll: every status a run can end in ends the wait
AfterPoll_AnyEndStatus(status) ==
    IF status = "FAILED" THEN RunFailedError
    ELSE IF status \in RunEndStatuses THEN "read"
    ELSE "sleep"

\* the if/elif on the polled status: return, raise, or sleep
AfterPoll(status) ==
    IF status = "SUCCEEDED" THEN "read"
    ELSE IF status = "FAILED" THEN RunFailedError
    ELSE "sleep"

PollInit ==
    /\ ClsIdle
    /\ SwIdle
    /\ PlInit
    /\ ap_pc = "start"
    /\ ap_max_wait \in { PollInterval * k : k \in 1..MaxPolls }
    /\ ap_elapsed = 0
    /\ ap_polls = <<>>
    /\ ap_run = "none"
    /\ ap_dataset = FALSE

\* what a step of crawl_google_maps leaves alone
ApFrame ==
    /\ UNCHANGED ap_max_wait
    /\ UNCHANGED <<clsVars, swVars, plVars>>

\* the POST that starts the actor run, raise_for_status, elapsed = 0
ApStart ==
    /\ ap_pc = "start"
    /\ \/ /\ ap_run' = "RUNNING"
          /\ ap_pc' = "poll"
       \/ /\ ap_pc' = HTTPStatusError
          /\ UNCHANGED ap_run
    /\ UNCHANGED <<ap_elapsed, ap_polls, ap_dataset>>
    /\ ApFrame

\* the discovery service ends the run
ApRunEnds ==
    /\ ap_run = "RUNNING"
    /\ ap_pc \in {"poll", "sleep"}
    /\ ap_run' \in RunEndStatuses
    /\ UNCHANGED <<ap_pc, ap_elapsed, ap_polls, ap_dataset>>
    /\ ApFrame

\* one GET of the run's status inside the while loop
ApPoll ==
    /\ ap_pc = "poll"
    /\ \/ /\ ap_polls' = Append(ap_polls, ap_run)
          /\ ap_pc' = AfterPoll(ap_run)
       \/ /\ ap_pc' = HTTPStatusError
          /\ UNCHANGED ap_polls
    /\ UNCHANGED <<ap_elapsed, ap_run, ap_dataset>>
    /\ ApFrame

\* asyncio.sleep(5) returns; elapsed += 5; the while condition
ApSleep ==
    /\ ap_pc = "sleep"
    /\ ap_elapsed' = ap_elapsed + PollInterval
    /\ ap_pc' = IF ap_elapsed' < ap_max_wait THEN "poll" ELSE RunTimeoutError
    /\ UNCHANGED <<ap_polls, ap_run, ap_dataset>>
    /\ ApFrame

\* the GET of the dataset items, raise_for_status, the mapping, the return
ApRead ==
    /\ ap_pc = "read"
    /\ ap_dataset' = TRUE
    /\ ap_pc' \in {"returned", HTTPStatusError}
    /\ UNCHANGED <<ap_elapsed, ap_polls, ap_run>>
    /\ ApFrame

\* a step of the crawl_google_maps call itself
ApCall == ApStart \/ ApPoll \/ ApSleep \/ ApRead

PollNext ==
    \/ ApStart
    \/ ApRunEnds
    \/ ApPoll
    \/ ApSleep
    \/ ApRead

\* every request of the client has a timeout and the sleep returns, so a
\* call that can take a step takes one
SpecPoll == PollInit /\ [][PollNext]_vars /\ WF_vars(ApCall)

-----------------------------------------------------------------------------
(* Claims about check_impound_service, checked under SpecClassifier *)

\* the negation phrases as the specification lists them
NegationPhrases ==
    { <<"w","e"," ","d","o"," ","n","o","t"," ","i","m","p","o","u","n","d">>,
      <<"n","o"," ","i","m","p","o","u","n","d">>,
      <<"n","o","t"," ","a","n"," ","i","m","p","o","u","n","d">> }

NegationIn(s) == \E p \in NegationPhrases : Contains(Lower(s), p)

\* C9: negation precedence. Whenever a negation phrase occurs in the
\* lowercased text or in the lowercased HTML, the call returns
\* has_impound = False with confidence 0.9, whatever the positive count is.
C9_NegationPrecedence ==
    (cls_pc = "returned" /\ (NegationIn(text) \/ NegationIn(html)))
        => impound_result = [has_impound |-> PyFalse, confidence |-> 90]

\* C9 witness: the negation is in the HTML only and three positive keyword
\* hits are present; the call returned (False, 0.9).
C9_Witness ==
    /\ cls_pc = "returned"
    /\ NegationIn(html)
    /\ ~NegationIn(text)
    /\ Matches(html, text) >= 3
    /\ impound_result = [has_impound |-> PyFalse, confidence |-> 90]

\* C10: confidence mapping. Without a negation phrase the total keyword
\* count maps to 0 -> (False, 0.3), 1 -> (True, 0.6), 2 -> (True, 0.8),
\* >= 3 -> (True, 0.95); the flag is True iff the count is at least 1 and
\* the confidence is non-decreasing in the count.
C10_ConfidenceMapping ==
    /\ (cls_pc = "returned" /\ ~NegationIn(text) /\ ~NegationIn(html)) =>
          LET n == Matches(html, text) IN
          /\ n = 0 => impound_result = [has_impound |-> PyFalse, confidence |-> 30]
          /\ n = 1 => impound_result = [has_impound |-> PyTrue, confidence |-> 60]
          /\ n = 2 => impound_result = [has_impound |-> PyTrue, confidence |-> 80]
          /\ n >= 3 => impound_result = [has_impound |-> PyTrue, confidence |-> 95]
          /\ (impound_result.has_impound = PyTrue) <=> (n >= 1)
    /\ \A a, b \in 0..(2 * Len(impound_keywords)) :
          a <= b => ConfidenceOf(a).confidence <= ConfidenceOf(b).confidence

\* C10 witness: no negation phrase, exactly three hits (two in the text,
\* one in the HTML), returned (True, 0.95).
C10_Witness ==
    /\ cls_pc = "returned"
    /\ ~NegationIn(text)
    /\ ~NegationIn(html)
    /\ Matches(html, text) = 3
    /\ impound_result = [has_impound |-> PyTrue, confidence |-> 95]

\* the number of places of s at which p starts
Occurrences(s, p) ==
    Cardinality({ i \in 1..Len(s) :
        i + Len(p) - 1 <= Len(s) /\ SubSeq(s, i, i + Len(p) - 1) = p })

RECURSIVE OccurrenceTotal(_, _, _)
OccurrenceTotal(h, t, k) ==
    IF k > Len(impound_keywords) THEN 0
    ELSE Occurrences(Lower(t), impound_keywords[k])
       + Occurrences(Lower(h), impound_keywords[k])
       + OccurrenceTotal(h, t, k + 1)

\* the positive keywords that occur in the lowercased s
KeywordsIn(s) ==
    { k \in 1..Len(impound_keywords) : Contains(Lower(s), impound_keywords[k]) }

\* C24 as stated: keyword counting. The total count check_impound_service
\* uses is the number of occurrences of the positive keywords in the
\* lowercased text plus the number of occurrences in the lowercased HTML, so
\* the result is the confidence of that number of occurrences.
C24_CountsOccurrences ==
    (cls_pc = "returned" /\ ~NegativeHit(html, text))
        => impound_result = ConfidenceOf(OccurrenceTotal(html, text, 1))

\* C24 amended: keyword counting. The total count is the number of positive
\* keywords that occur in the lowercased text plus the number of positive
\* keywords that occur in the lowercased HTML: a keyword counts once per
\* source however often it is repeated there, and twice when it is in both.
C24_CountsKeywordsPerSource ==
    (cls_pc = "returned" /\ ~NegativeHit(html, text))
        => /\ Matches(html, text) =
                  Cardinality(KeywordsIn(text)) + Cardinality(KeywordsIn(html))
           /\ impound_result =
                  ConfidenceOf(Cardinality(KeywordsIn(text))
                               + Cardinality(KeywordsIn(html)))

\* C24 witness: the text mentions 'impound' twice, the HTML is empty, and
\* the call returned the result of a count of one, (True, 0.6).
C24_Witness ==
    /\ cls_pc = "returned"
    /\ ~NegativeHit(html, text)
    /\ html = <<>>
    /\ Occurrences(Lower(text), W_impound) = 2
    /\ impound_result = [has_impound |-> PyTrue, confidence |-> 60]

-----------------------------------------------------------------------------
(* Claims about scrape_website, checked under SpecScraper *)

\* the prefixes the claim names
HasHttpPrefix(url) ==
    \/ url # NoneStr /\ Len(url) >= 7 /\ SubSeq(url, 1, 7) = <<"h","t","t","p",":","/","/">>
    \/ url # NoneStr /\ Len(url) >= 8 /\ SubSeq(url, 1, 8) = <<"h","t","t","p","s",":","/","/">>

\* C6: for a url that is empty (or None) or lacks the http:// or https://
\* prefix, scrape_website never invokes the page fetcher (no launch, no
\* new_page, no goto) and returns status 'no_website' with hours = None and
\* has_impound = None.
C6_NoFetchWithoutHttpUrl ==
    (sw_pc # "idle" /\ ~HasHttpPrefix(sw_url)) =>
        /\ sw_fetcher = <<>>
        /\ sw_pc \in {"call", "returned"}
        /\ sw_pc = "returned" =>
              /\ sw_result.status = "no_website"
              /\ sw_result.hours = None
              /\ sw_result.has_impound = None

\* C6 witness: a non-empty url without the prefix was passed and the call
\* returned no_website without touching the fetcher.
C6_Witness ==
    /\ sw_pc = "returned"
    /\ sw_url = U_ftp \o U_host
    /\ sw_fetcher = <<>>
    /\ sw_result.status = "no_website"

\* C17: scrape_website never raises. For an http(s) url a failure at any
\* step of the fetch (launch, new page, navigation, content read) ends in
\* the returned dict with status 'failed', hours None, has_impound None and
\* confidence 0.0; a returned status is 'success', 'failed' or 'no_website'.
C17_ScrapeWebsiteNeverRaises ==
    /\ sw_pc # "raised"
    /\ sw_pc = "returned" => sw_result.status \in {"success", "failed", "no_website"}
    /\ (sw_pc = "returned" /\ HasHttpPrefix(sw_url)) =>
          /\ sw_result.status \in {"success", "failed"}
          /\ sw_result.status = "success" =>
                sw_fetcher # <<>> /\ sw_fetcher[Len(sw_fetcher)] = "content"
          /\ sw_result.status = "failed" =>
                /\ sw_result.hours = None
                /\ sw_result.has_impound = None
                /\ sw_result.impound_confidence = 0

\* C17 witness: the navigation to an https url failed (error or timeout)
\* after the browser was launched and the page opened; the call returned
\* the failed dict.
C17_Witness ==
    /\ sw_pc = "returned"
    /\ sw_url = P_https \o U_host
    /\ sw_fetcher = <<"launch", "new_page", "goto">>
    /\ sw_result = FailedResult

-----------------------------------------------------------------------------
(* Claims about _scrape_websites_batch, checked under SpecBatch *)

\* the tasks whose page fetch failed (scrape_website returned 'failed')
FetchFailed == { i \in Tasks : task_web[i] = "failed" }

\* the tasks inside their enrich_company call
InEnrich ==
    { i \in Tasks : task_pc[i] \in {"get", "launch", "page", "commit", "snapshot"} }

\* the tasks holding a permit of the semaphore
Holding == { i \in Tasks : task_pc[i] \notin {"start", "done"} }

\* C1: batch isolation. When exactly K website fetches of a batch of N
\* entities fail (and nothing else does), the batch returns failed = K and
\* success = N - K, and every entity has a website_scrape_status.
C1_BatchIsolation ==
    (gathered = "returned" /\ db_failures = 0) =>
        /\ results.failed = Cardinality(FetchFailed)
        /\ results.success = Len(batch) - Cardinality(FetchFailed)
        /\ \A i \in Tasks : companies[batch[i]].website_scrape_status # None

\* C2: concurrency bound. At most max_concurrent enrich_company calls are
\* in flight in every state of a batch, and never more permits are held
\* than the semaphore has.
C2_ConcurrencyBound ==
    /\ Cardinality(InEnrich) <= MaxConcurrent
    /\ Cardinality(Holding) + semaphore = MaxConcurrent

\* C2 witness: the batch is larger than the bound, max_concurrent calls are
\* in flight and a further task waits for a permit.
C2_Witness ==
    /\ Len(batch) > MaxConcurrent
    /\ Cardinality(InEnrich) = MaxConcurrent
    /\ \E i \in Tasks : task_pc[i] = "start"

\* C4: per-entity failure outcome. After the batch, an entity whose website
\* fetch failed has website_scrape_status 'failed' and stage FAILED.
C4_FetchFailureMarksFailed ==
    gathered = "returned" =>
        \A i \in FetchFailed :
            /\ companies[batch[i]].website_scrape_status = "failed"
            /\ companies[batch[i]].scraping_stage = S_FAILED

\* C5: no-website short-circuit. An entity whose website is empty or lacks
\* the http:// or https:// prefix never holds a permit of the batch, ends
\* with website_scrape_status 'no_website' and keeps the stage it had.
C5_NoWebsiteShortCircuit ==
    \A i \in Tasks :
        (companies[batch[i]].website = <<>> \/ ~HasHttpPrefix(companies[batch[i]].website)) =>
            /\ i \notin Holding
            /\ gathered = "returned" =>
                  /\ companies[batch[i]].website_scrape_status = "no_website"
                  /\ companies[batch[i]].scraping_stage = stage0[batch[i]]

\* C8: one entity's failure never aborts the batch. Whatever tasks raise,
\* gather does not raise, a step of the batch is always possible until it
\* returns, and at the return every task has run to its end and every
\* permit is back.
C8_FailureNeverAborts ==
    /\ gathered # "raised"
    /\ phase = "websites" => ENABLED BatchNext
    /\ gathered = "returned" =>
          /\ \A i \in Tasks : task_pc[i] = "done" /\ task_out[i] # "none"
          /\ semaphore = MaxConcurrent
          /\ phase = "returned"

\* C8 witness: an exception left one task (its except branch raised too),
\* another entity was still scraped and counted, and the batch returned.
C8_Witness ==
    /\ gathered = "returned"
    /\ \E i \in Tasks : task_out[i] = "raised"
    /\ \E i \in Tasks : task_out[i] = "success"
    /\ semaphore = MaxConcurrent

\* the step in which task i's enrich_company call completes
EnrichCompleted(i) == task_pc[i] = "snapshot" /\ task_pc'[i] = "mark"

\* the snapshots of company c
SnapshotsOf(table, c) == { r \in BagToSet(table) : r.company_id = c }

\* C26: snapshots are append-only. Every completed enrich_company call
\* appends exactly one snapshot for its entity, with source 'website' and the
\* field set of that pass as payload; and no step modifies or deletes a
\* snapshot that exists, so no entity's snapshot count decreases.
C26_SnapshotsAppendOnly ==
    [][ /\ \A i \in Tasks : EnrichCompleted(i) =>
              /\ snapshots' = snapshots (+)
                    SetToBag({ [company_id |-> batch[i],
                                snapshot_data |-> task_web[i],
                                enrichment_source |-> "website"] })
              /\ BagCardinality(snapshots') = BagCardinality(snapshots) + 1
              /\ task_web[i] # "none" =>
                    companies[batch[i]].website_scrape_status = task_web[i]
        /\ \A r \in BagToSet(snapshots) :
              /\ r \in BagToSet(snapshots')
              /\ CopiesIn(r, snapshots') >= CopiesIn(r, snapshots)
      ]_vars

\* C26 witness: a batch of three returned with two snapshots stored, a
\* successful one and a failed one, and none for the entity whose
\* enrich_company call raised.
C26_Witness ==
    /\ gathered = "returned"
    /\ Len(batch) = 3
    /\ BagCardinality(snapshots) = 2
    /\ \E r \in BagToSet(snapshots) : r.snapshot_data = "success"
    /\ \E r \in BagToSet(snapshots) : r.snapshot_data = "failed"
    /\ \E i \in Tasks : SnapshotsOf(snapshots, batch[i]) = {}

\* C27: batch counters account for every entity. When
\* _scrape_websites_batch returns, success + failed equals the number of
\* input entities and each entity was counted exactly once, also when
\* repository commits failed during the batch.
C27_CountersAccountForAll ==
    gathered = "returned" =>
        /\ results.success + results.failed = Len(batch)
        /\ \A i \in Tasks : task_out[i] \in {"success", "failed"}

\* C29: single browser per scraper. While the tasks of a batch run
\* scrape_website concurrently on the one WebsiteScraperService, initialize
\* launches a browser only when the service has none, so at most one
\* browser is launched.
C29_SingleBrowser ==
    [][ \A i \in Tasks :
            (task_pc[i] = "launch" /\ task_pc'[i] = "page") => ~es_browser
      ]_vars

-----------------------------------------------------------------------------
(* Claims about the pipeline, checked under SpecStored *)

\* the order INITIAL < DISCOVERED < WEBSITE_SCRAPED < PROFILE_SCRAPED <
\* FULLY_ENRICHED (an unset stage counts as INITIAL)
StageRank(stage) ==
    CASE stage = S_GOOGLE_MAPS -> 1
      [] stage = S_WEBSITE_SCRAPED -> 2
      [] stage = S_FACEBOOK_SCRAPED -> 3
      [] stage = S_FULLY_ENRICHED -> 4
      [] OTHER -> 0

\* C3: the stage is forward-only. No step moves an entity to an earlier
\* stage; the only non-forward move is entering FAILED (a FAILED entity may
\* re-enter on a retry).
C3_StageForwardOnly ==
    [][ \A c \in 1..Len(companies) :
          (companies[c].scraping_stage # S_FAILED /\ companies'[c].scraping_stage # S_FAILED)
              => StageRank(companies'[c].scraping_stage) >= StageRank(companies[c].scraping_stage)
      ]_vars

\* a step of the crawl loop: one create_or_update_company call
IsUpsertStep == op = "crawl" /\ phase = "upsert" /\ todo' = todo - 1

\* what the claims say on rows and counters for one upsert of the dict data
UpsertKeepsOneRow(data) ==
    LET key == data.google_business_url
        existed == RowsWithKey(companies, key) # {}
    IN  /\ Cardinality(RowsWithKey(companies', key)) = 1
        /\ existed => /\ RowsWithKey(companies', key) = RowsWithKey(companies, key)
                      /\ Len(companies') = Len(companies)
        /\ IF existed
           THEN /\ stats'.companies_updated = stats.companies_updated + 1
                /\ stats'.companies_new = stats.companies_new
           ELSE /\ stats'.companies_new = stats.companies_new + 1
                /\ stats'.companies_updated = stats.companies_updated

\* C7 as stated: idempotent upsert. Processing an external key leaves
\* exactly one row for it, a repeat keeps the row's id, the row's fields
\* equal the values of the call, and the first occurrence counts in
\* companies_new, the repeat in companies_updated.
C7_UpsertTakesSecondValues ==
    [][ IsUpsertStep =>
          LET data == last_upsert'.data IN
          /\ UpsertKeepsOneRow(data)
          /\ \A c \in RowsWithKey(companies', data.google_business_url) :
                companies'[c].website = data.website
      ]_vars

\* C7 amended: as C7, except that a field for which the repeat call carries
\* None keeps the value the row had.
C7_UpsertKeepsValueOnNone ==
    [][ IsUpsertStep =>
          LET data == last_upsert'.data IN
          /\ UpsertKeepsOneRow(data)
          /\ \A c \in RowsWithKey(companies', data.google_business_url) :
                companies'[c].website =
                    IF data.website # NoneStr THEN data.website
                    ELSE IF c <= Len(companies) THEN companies[c].website
                    ELSE NoneStr
      ]_vars

\* C7 witness: a key was processed a second time with website None after a
\* first call that set a website; one row holds the key, with the first
\* website.
C7_Witness ==
    /\ last_upsert.existing
    /\ last_upsert.data.website = NoneStr
    /\ last_upsert.before = U_site
    /\ Cardinality(RowsWithKey(companies, last_upsert.data.google_business_url)) = 1
    /\ companies[last_upsert.id].website = U_site
    /\ stats.companies_new = 1
    /\ stats.companies_updated = 1

-----------------------------------------------------------------------------
(* Claims about crawl_and_enrich_zone and refresh_stale_companies, checked *)
(* under SpecStored                                                        *)

\* crawl_and_enrich_zone returned its stats to the caller
CrawlReturned == op = "idle" /\ phase = "returned" /\ args.zone_id # ""

\* the step that calls crawl_and_enrich_zone
IsCrawlCall == op = "idle" /\ ops' = ops + 1 /\ args'.zone_id # ""

\* the step that calls refresh_stale_companies
IsRefreshCall == op = "idle" /\ ops' = ops + 1 /\ args'.limit > 0

BreakdownTotal(breakdown) ==
    breakdown[S_INITIAL] + breakdown[S_GOOGLE_MAPS] + breakdown[S_WEBSITE_SCRAPED]
        + breakdown[S_FACEBOOK_SCRAPED] + breakdown[S_FULLY_ENRICHED] + breakdown[S_FAILED]

\* C11: crawlZone statistics. The returned stage_breakdown counts the
\* crawl's entities by their final stage: its values sum to companies_found
\* and the entities the crawl left FAILED are counted under FAILED.
C11_BreakdownByFinalStage ==
    CrawlReturned =>
        /\ BreakdownTotal(stats.stage_breakdown) = stats.companies_found
        /\ stats.stage_breakdown[S_FAILED] >=
              Cardinality({ c \in 1..Len(companies) :
                              /\ \E i \in 1..Len(batch) : batch[i] = c
                              /\ companies[c].scraping_stage = S_FAILED })

\* the entities the stale refresh is to select
StaleWanted(cs, cutoff) ==
    { c \in 1..Len(cs) :
        /\ cs[c].website # NoneStr /\ cs[c].website # <<>>
        /\ cs[c].website_scrape_status # "no_website"
        /\ \/ cs[c].website_scraped_at = NullTime
           \/ cs[c].website_scraped_at[1] < cutoff }

\* C12: stale-refresh selection. refreshStale runs the batch over exactly
\* the entities (at most limit) that have a website, are not marked
\* 'no_website' and were scraped before now - daysStale or never, those
\* with an unset website_scrape_status included; the call itself modifies
\* no entity.
C12_StaleSelection ==
    [][ IsRefreshCall =>
          LET wanted == StaleWanted(companies, now - args'.days_stale)
              selected == { batch'[i] : i \in 1..Len(batch') }
          IN  /\ selected \subseteq wanted
              /\ Cardinality(selected) = Min(args'.limit, Cardinality(wanted))
              /\ Len(batch') = Cardinality(selected)
              /\ companies' = companies
      ]_vars

\* C14: unknown zone. crawlZone with a zone id that does not exist raises
\* at once: the discovery client is not called, no page is fetched, no
\* entity is created or modified; a crawl runs only on a known zone.
C14_UnknownZoneFailsFirst ==
    [][ /\ op' = "crawl" => args'.zone_id \in Zones
        /\ (IsCrawlCall /\ args'.zone_id \notin Zones) =>
              /\ op' = "idle"
              /\ phase' = ZoneNotFound
              /\ discovery' = "none"
              /\ companies' = companies
              /\ es_browser' = es_browser
              /\ task_pc' = <<>>
      ]_vars

\* C14 witness: a crawl on an unknown zone has raised over a table that
\* holds entities.
C14_Witness ==
    /\ op = "idle"
    /\ phase = ZoneNotFound
    /\ args.zone_id \notin Zones
    /\ discovery = "none"
    /\ Len(companies) > 0

\* C15: discovery failure is fatal. When crawl_google_maps fails, crawlZone
\* raises to its caller: no statistics, no upsert, no website or profile
\* scrape; the stages after discovery run only after a successful discovery.
C15_DiscoveryFailureIsFatal ==
    [][ /\ (op' = "crawl" /\ phase' # "discover") => discovery' = "SUCCEEDED"
        /\ (op = "crawl" /\ phase = "discover" /\ discovery' \notin {"none", "SUCCEEDED"}) =>
              /\ op' = "idle"
              /\ phase' = DiscoveryError
              /\ stats' = NoStats
              /\ companies' = companies
              /\ batch' = <<>>
              /\ task_pc' = <<>>
              /\ es_browser' = es_browser
      ]_vars

\* C15 witness: the discovery run timed out over a table that holds
\* entities, and the crawl raised.
C15_Witness ==
    /\ op = "idle"
    /\ phase = DiscoveryError
    /\ discovery = "timeout"
    /\ stats = NoStats
    /\ Len(companies) > 0

\* C16: website scraping disabled. With scrape_websites false the crawl
\* fetches no page, reports websites_scraped = websites_failed = 0, and an
\* upserted entity that is new or not past DISCOVERED is at DISCOVERED
\* (google_maps) from its upsert to the return.
C16_ScrapingDisabled ==
    [][ (op = "crawl" /\ ~args.scrape_websites) =>
          /\ task_pc' = <<>>
          /\ es_browser' = es_browser
          /\ stats'.websites_scraped = 0
          /\ stats'.websites_failed = 0
          /\ IF IsUpsertStep
             THEN LET id == last_upsert'.id IN
                  (\/ ~last_upsert'.existing
                   \/ companies[id].scraping_stage \in {None, S_INITIAL, S_GOOGLE_MAPS})
                      => companies'[id].scraping_stage = S_GOOGLE_MAPS
             ELSE companies' = companies
      ]_vars

\* C18: discovery of a new entity. After the loop body has persisted a
\* listing whose key did not exist, the new entity's stage is DISCOVERED
\* (google_maps).
C18_NewEntityIsDiscovered ==
    [][ (IsUpsertStep /\ ~last_upsert'.existing) =>
          companies'[last_upsert'.id].scraping_stage = S_GOOGLE_MAPS
      ]_vars

\* C19: re-discovery of an existing entity. Upserting a listing whose key
\* exists leaves a stage past DISCOVERED as it is, turns an unset or INITIAL
\* stage into DISCOVERED, and never lowers the stage.
C19_RediscoveryKeepsStage ==
    [][ (IsUpsertStep /\ last_upsert'.existing) =>
          LET id == last_upsert'.id
              old == companies[id].scraping_stage
              new == companies'[id].scraping_stage
          IN  /\ old \in {S_WEBSITE_SCRAPED, S_FACEBOOK_SCRAPED, S_FULLY_ENRICHED, S_FAILED}
                    => new = old
              /\ old \in {None, S_INITIAL, S_GOOGLE_MAPS} => new = S_GOOGLE_MAPS
              /\ new # S_FAILED => StageRank(new) >= StageRank(old)
      ]_vars

\* C19 witness: one crawl has re-discovered an entity that was FULLY_ENRICHED
\* and one that was INITIAL; the first is as it was, the second DISCOVERED.
C19_Witness ==
    /\ op = "crawl"
    /\ last_upsert.existing
    /\ stats.companies_updated = 2
    /\ stats.stage_breakdown[S_FULLY_ENRICHED] = 1
    /\ stats.stage_breakdown[S_GOOGLE_MAPS] = 1
    /\ \E c \in 1..Len(companies) : companies[c].scraping_stage = S_FULLY_ENRICHED
    /\ \E c \in 1..Len(companies) : companies[c].scraping_stage = S_GOOGLE_MAPS

-----------------------------------------------------------------------------
(* Claims about repeated refreshes, checked under SpecRefresh *)

\* the entity c has a website and its scrape failed or never took place
NeedsRescrape(c) ==
    /\ c <= Len(companies)
    /\ ValidUrl(companies[c].website)
    /\ \/ companies[c].website_scrape_status = "failed"
       \/ companies[c].website_scraped_at = NullTime

\* a refresh has selected the entity c and run its scrape to the end
RescrapedByRefresh(c) ==
    /\ op = "refresh"
    /\ \E i \in Tasks : batch[i] = c /\ task_pc[i] = "done"

\* C13: stale-refresh liveness. When refreshStale is called again and again
\* (limit >= 1, fair scheduling), every entity that has a website and whose
\* scrape failed or never took place is eventually selected and scraped.
C13_StaleRefreshLiveness ==
    \A c \in 1..MaxStored : [](NeedsRescrape(c) => <>RescrapedByRefresh(c))

-----------------------------------------------------------------------------
(* Claims about stored stage values, checked under SpecStored *)

\* the stage column holds a value that is not of the enum
HasUnknownStage(row) ==
    row.scraping_stage # None /\ row.scraping_stage \notin ScrapingStage

\* C20: defensive normalization. An entity whose persisted stage is not a
\* defined stage value is treated as DISCOVERED by the entry points:
\* getStatus counts it under DISCOVERED (google_maps), the crawl's upsert
\* rewrites its stage to DISCOVERED, and no entry point raises because of it.
C20_UnknownStageIsDiscovered ==
    [][ /\ status_result'.called =>
              status_result'.status_breakdown[S_GOOGLE_MAPS] =
                  Cardinality({ c \in 1..Len(companies') :
                      \/ companies'[c].scraping_stage = S_GOOGLE_MAPS
                      \/ HasUnknownStage(companies'[c]) })
        /\ (IsUpsertStep /\ last_upsert'.existing
                /\ HasUnknownStage(companies[last_upsert'.id])) =>
              companies'[last_upsert'.id].scraping_stage = S_GOOGLE_MAPS
        /\ phase' \in {"discover", "upsert", "websites", "profiles", "returned",
                       ZoneNotFound, DiscoveryError}
      ]_vars

-----------------------------------------------------------------------------
(* Claims about the batches inside the entry points, checked under         *)
(* SpecStored                                                              *)

\* C21: no two concurrent operations on one entity. Whatever the discovery
\* list (the same external-listing key may occur more than once) or the
\* stale selection is, no two tasks of a batch are inside their fetch+update
\* operation for the same entity at the same time.
C21_OneOperationPerEntity ==
    \A i, j \in Holding : (i # j) => batch[i] # batch[j]

\* the dict enrich_from_facebook and enrich_from_google return, as the set
\* of its keys
enrich_from_google(row) == {}

\* the step of _scrape_profiles_batch that makes company c FULLY_ENRICHED
BecomesFullyEnriched(c) ==
    /\ c <= Len(companies)
    /\ companies[c].scraping_stage # S_FULLY_ENRICHED
    /\ companies'[c].scraping_stage = S_FULLY_ENRICHED

\* C22: reaching FULLY_ENRICHED. An entity's stage becomes FULLY_ENRICHED
\* only when its stage was WEBSITE_SCRAPED and a profile scrape for it
\* succeeded (returned data) in the same pass.
C22_FullyEnrichedNeedsProfile ==
    [][ \A c \in 1..Len(companies') :
            BecomesFullyEnriched(c) =>
                /\ companies[c].scraping_stage = S_WEBSITE_SCRAPED
                /\ enrich_from_google(companies[c]) # {}
      ]_vars

\* C28: getStatus partitions the entities. Every entity is counted in
\* exactly one bucket of status_breakdown, so the bucket counts sum to
\* total_companies.
C28_StatusPartition ==
    status_result.called =>
        BreakdownTotal(status_result.status_breakdown) = status_result.total_companies

\* C23: strict phase ordering in crawl_and_enrich_zone. No website fetch
\* has started while the persistence loop runs; while the website batch
\* runs the loop is over and no profile scrape has started; and the profile
\* phase runs only after every task of the website batch has finished and
\* the batch's gather has returned.
C23_PhaseOrdering ==
    op = "crawl" =>
        /\ phase \in {"discover", "upsert"} => (Tasks = {} /\ idx = 0)
        /\ phase = "websites" => (todo = 0 /\ idx = 0)
        /\ phase = "profiles" =>
              /\ todo = 0
              /\ \A i \in Tasks : task_pc[i] = "done"
              /\ Tasks # {} => gathered = "returned"

\* C23 witness: a crawl whose website batch of two has finished is in its
\* profile phase, past the first entity.
C23_Witness ==
    /\ op = "crawl"
    /\ phase = "profiles"
    /\ Len(batch) = 2
    /\ idx = 2
    /\ \A i \in Tasks : task_pc[i] = "done"
    /\ gathered = "returned"
    /\ results.success + results.failed = 2

-----------------------------------------------------------------------------
(* Claims about the discovery adapter's listings, checked under SpecStored *)

\* an item with neither a name nor an external key is mapped to None
MalformedAreDropped ==
    \A item \in RawItems :
        (item.title \in {None, ""} /\ item.url \in {None, ""})
            => _map_apify_result(item) = Dropped

\* C25: malformed listings and count consistency. A raw listing missing
\* both its name and its external-listing key is dropped by the adapter
\* (nothing is raised), every record that reaches the upsert step has a
\* non-empty name and a non-empty external key, and on every successful
\* return of crawl_and_enrich_zone companies_found = companies_new +
\* companies_updated.
C25_MalformedListingsDropped ==
    [][ /\ MalformedAreDropped
        /\ IsUpsertStep =>
              /\ last_upsert'.data.name \notin {None, ""}
              /\ last_upsert'.data.google_business_url \notin {None, ""}
        /\ (op' = "idle" /\ phase' = "returned" /\ args'.zone_id # "") =>
              stats'.companies_found =
                  stats'.companies_new + stats'.companies_updated
      ]_vars

\* C25 witness: a crawl returned after two listings reached the upsert
\* step, one for a new entity and one for an existing one.
C25_Witness ==
    /\ CrawlReturned
    /\ stats.companies_found = 2
    /\ stats.companies_new = 1
    /\ stats.companies_updated = 1

-----------------------------------------------------------------------------
(* Claims about crawl_google_maps, checked under SpecPoll *)

\* the call has ended: it returned or raised
ApEnded == ap_pc = "returned" \/ ap_pc \in ApErrors

\* the status the latest poll observed ("none" before the first poll)
LastPolled == IF ap_polls = <<>> THEN "none" ELSE ap_polls[Len(ap_polls)]

\* C30: discovery run polling. The dataset is read only after a poll
\* observed SUCCEEDED (and the run has succeeded); a poll observing FAILED
\* raises at once; every other status is followed by another poll 5 seconds
\* later, until max_wait is used up; after at most max_wait/5 polls without
\* SUCCEEDED the call raises TimeoutError; and the call always ends.
C30_PollingTerminates ==
    /\ [] /\ (ap_dataset \/ ap_pc \in {"read", "returned"}) =>
                (LastPolled = "SUCCEEDED" /\ ap_run = "SUCCEEDED")
          /\ LastPolled = "FAILED" => ap_pc = RunFailedError
          /\ \A k \in 1..(Len(ap_polls) - 1) :
                ap_polls[k] \notin {"SUCCEEDED", "FAILED"}
          /\ ap_pc = "poll" => ap_elapsed = PollInterval * Len(ap_polls)
          /\ ap_pc = "sleep" =>
                /\ LastPolled \notin {"SUCCEEDED", "FAILED"}
                /\ ap_elapsed = PollInterval * (Len(ap_polls) - 1)
          /\ Len(ap_polls) * PollInterval <= ap_max_wait
          /\ ap_pc = RunTimeoutError =>
                /\ Len(ap_polls) * PollInterval = ap_max_wait
                /\ \A k \in 1..Len(ap_polls) : ap_polls[k] # "SUCCEEDED"
                /\ ~ap_dataset
    /\ <>ApEnded

\* C30 witness: the run was aborted, the polls went on to the last one
\* max_wait allows, and the call raised TimeoutError without reading the
\* dataset.
C30_Witness ==
    /\ ap_pc = RunTimeoutError
    /\ ap_max_wait = PollInterval * MaxPolls
    /\ Len(ap_polls) = MaxPolls
    /\ LastPolled = "ABORTED"
    /\ ap_polls[1] = "RUNNING"
    /\ ~ap_dataset

=============================================================================
